---- MODULE Spec2Model ----
(***************************************************************************)
(* mobius-turf: the call-through layer of src/typescript/convert.ts and    *)
(* src/typescript/create.ts.                                               *)
(*                                                                         *)
(* Every exported function of these files is one statement: it hands its   *)
(* arguments to a function of the npm package "@turf/turf" (imported at    *)
(* convert.ts:10 and create.ts:9), after dividing the arguments documented *)
(* as meters by 1000, and returns what that function returns.  The package *)
(* is a third-party dependency: its code is not part of this repository.   *)
(* The model therefore records, for one call, exactly what the wrapper     *)
(* hands over and what it gives back, and leaves the library's own         *)
(* behaviour open: the library either returns a value or throws, and the   *)
(* wrapper, which has no try/catch and no guard, passes either on.         *)
(***************************************************************************)
EXTENDS Integers, Sequences, FiniteSets, TLC

VARIABLES
    op,       \* the exported function the caller invoked last
    given,    \* the distances the caller passed to it, as written (meters)
    fn,       \* the library function the last wrapper call delegated to
    arg,      \* the input object handed over (bbox, points or geojson), by name
    arg2,     \* the second positional input handed over, where there is one
    size,     \* the distance handed over, in the library's unit, as a fraction
    size2,    \* the second distance handed over, where there is one
    opts,     \* the options object handed over
    ret,      \* what the wrapper gave back to its caller
    libret,   \* the properties of the feature the library returned, where read
    result,   \* the properties of the feature the wrapper returned, where written
    ncalls    \* calls made so far

vars == <<op, given, fn, arg, arg2, size, size2, opts, ret, libret, result, ncalls>>

(***************************************************************************)
(* Bounds of the model.                                                    *)
(***************************************************************************)
MaxCalls == 2
MaxSide == 2
MaxKm == 1

\* create.ts divides every argument documented as meters by this number.
MetersPerKm == 1000

(***************************************************************************)
(* Inputs.  A wrapper's numeric argument is a number of meters; the model  *)
(* draws it from whole and fractional kilometre amounts on both sides of   *)
(* zero, so that a guard on the sign, if there were one, would show.       *)
(***************************************************************************)
Meters == { s * 500 : s \in (0 - MaxSide)..MaxSide }
BBoxes == {"bboxA", "bboxB"}
Masks == {"undefined", "maskPoly"}
PointSets == {"noPoints", "somePoints"}
GridTypes == {"point", "square", "hex", "triangle"}
Properties == {"undefined", "solRad"}
Weights == {0, 1, 2}
GeoJsons == {"oneSegment", "triangleEdges", "crossingEdges"}
PointGrids == {"regularGrid", "irregularGrid"}
Breaks == {"ascending", "duplicate", "unsorted"}
TinNames == {"undefined", "z"}
Features == {"squareCorners", "collinear"}
Concavities == {"one", "Infinity"}
Lines == {"lineA", "lineB"}
PointIds == {"pointA", "pointB"}
Bearings == {"b25to47", "b0to90"}
Steps == {8, 64}
Units == {"kilometers", "miles", "degrees", "radians"}

Abs(n) == IF n < 0 THEN 0 - n ELSE n

RECURSIVE Gcd(_, _)
Gcd(a, b) == IF b = 0 THEN a ELSE Gcd(b, a % b)

\* A fraction num/den in lowest terms, den > 0.
Frac(n, d) ==
    LET g == Gcd(Abs(n), d)
    IN  [num |-> n \div g, den |-> d \div g]

\* No distance is handed over (polygonize takes none).
NoSize == [num |-> 0, den |-> 0]

\* `x/1000`: the meters argument as the library receives it.
ToKm(m) == Frac(m, MetersPerKm)

(***************************************************************************)
(* The options object of a call.  `keys` are the properties the object     *)
(* literal of the wrapper names; a property outside `keys` is not in the   *)
(* object and its field below is a filler.                                 *)
(***************************************************************************)
NoOpts ==
    [keys |-> {}, mask |-> "undefined", triangles |-> FALSE,
     gridType |-> "point", property |-> "undefined", weight |-> 0,
     zProperty |-> "undefined", commonProperties |-> "undefined",
     breaksProperties |-> "undefined", concavity |-> "Infinity",
     units |-> "undefined", steps |-> 0, reverse |-> FALSE]

MaskOpts(mask) ==
    [NoOpts EXCEPT !.keys = {"mask"}, !.mask = mask]

TriangleOpts(mask) ==
    [NoOpts EXCEPT !.keys = {"mask", "triangles"}, !.mask = mask,
                   !.triangles = TRUE]

InterpolateOpts(gridType, property, weight) ==
    [NoOpts EXCEPT !.keys = {"gridType", "property", "weight"},
                   !.gridType = gridType, !.property = property,
                   !.weight = weight]

\* {maxEdge: maxEdge/1000}: the value itself is the distance handed over.
MaxEdgeOpts == [NoOpts EXCEPT !.keys = {"maxEdge"}]

\* The options objects a caller may pass to linesIso and polygonIsobands;
\* the wrapper hands the caller's object over as it is.
ContourOptions ==
    { [NoOpts EXCEPT !.keys = k,
          !.zProperty = IF "zProperty" \in k THEN "temperature" ELSE "undefined",
          !.commonProperties =
              IF "commonProperties" \in k THEN "common" ELSE "undefined",
          !.breaksProperties =
              IF "breaksProperties" \in k THEN "perBreak" ELSE "undefined"] :
      k \in SUBSET {"zProperty", "commonProperties", "breaksProperties"} }

\* The options objects a caller may pass to polygonConvex.
ConvexOptions ==
    {NoOpts} \cup
    { [NoOpts EXCEPT !.keys = {"concavity"}, !.concavity = c] : c \in Concavities }

\* {steps: steps}
StepsOpts(steps) == [NoOpts EXCEPT !.keys = {"steps"}, !.steps = steps]

\* {reverse:reverse}
ReverseOpts(reverse) == [NoOpts EXCEPT !.keys = {"reverse"}, !.reverse = reverse]

\* The options objects a caller may pass to pointAlong: none, or one naming
\* the units; the wrapper hands the caller's object over as it is.
PointAlongOptions ==
    {NoOpts} \cup { [NoOpts EXCEPT !.keys = {"units"}, !.units = u] : u \in Units }

(***************************************************************************)
(* The unit in which the library reads the distances of a call: the one    *)
(* the options name, else its default.  The wrappers divide what their     *)
(* documentation calls meters by 1000, so the default is the kilometre.    *)
(***************************************************************************)
DefaultUnits == "kilometers"

ReadUnit(o) == IF "units" \in o.keys THEN o.units ELSE DefaultUnits

\* The exported functions whose documentation gives a distance in meters.
MetersDocumented ==
    {"buffer", "gridHex", "gridTriHex", "gridPoint", "gridSquare",
     "gridTriangle", "lineArc", "lineChunk", "lineOffset", "lineSliceAlong",
     "pointAlong", "pointDestination", "polygonConcave"}

(***************************************************************************)
(* What the library does with a call is decided by code outside this       *)
(* repository: it returns a value or it throws.                            *)
(***************************************************************************)
LibOutcomes == {"returned", "threw"}

NoReturn == [kind |-> "none", from |-> "none"]

\* The properties of a returned feature are not looked at.
NoProps == [coords |-> "none", index |-> 0, dist |-> NoSize, location |-> NoSize]

\* Distances the library may report, in its unit.
KmValues == { Frac(n, d) : n \in 0..MaxKm, d \in {1, 2, MetersPerKm} }

\* The features turf.nearestPointOnLine may return: a point with the
\* properties index, dist and location.
LibPoints ==
    [coords : {"nearA", "nearB"}, index : 0..1, dist : KmValues,
     location : KmValues]

\* `x * 1000`
Times(x, k) == Frac(x.num * k, x.den)

\* A mutation of DistToMeters that converts `location` as well.
DistAndLocationToMeters(pt) ==
    [pt EXCEPT !.dist = Times(pt.dist, MetersPerKm),
               !.location = Times(pt.location, MetersPerKm)]

\* `pt.properties.dist = pt.properties.dist * 1000;`
DistToMeters(pt) ==
    [pt EXCEPT !.dist = Times(pt.dist, MetersPerKm)]

TypeOK ==
    /\ op \in {"none", "buffer", "gridHex", "gridTriHex", "gridPoint",
               "gridSquare", "gridTriangle", "interpolate", "polygonize",
               "linesIso", "polygonIsobands", "polygonsTin", "polygonsVoronoi",
               "polygonConcave", "polygonConvex", "lineArc", "lineChunk",
               "lineOffset", "lineSliceAlong", "pointAlong",
               "pointDestination", "pointOnLineNearest"}
    /\ given \in Seq(Int) /\ Len(given) <= 2
    /\ fn \in {"none", "hexGrid", "pointGrid", "squareGrid", "triangleGrid",
               "interpolate", "polygonize", "isolines", "isobands", "tin",
               "voronoi", "concave", "convex", "buffer", "lineArc",
               "lineChunk", "lineOffset", "lineSliceAlong", "along",
               "destination", "nearestPointOnLine"}
    /\ arg \in {"none"} \cup BBoxes \cup PointSets \cup GeoJsons
               \cup PointGrids \cup Features \cup Lines \cup PointIds
    /\ arg2 \in {"none"} \cup Breaks \cup TinNames \cup BBoxes \cup Bearings
                \cup PointIds
    /\ size.den \in 0..MetersPerKm
    /\ size2.den \in 0..MetersPerKm
    /\ opts.keys \subseteq {"mask", "triangles", "gridType", "property", "weight",
                            "maxEdge", "zProperty", "commonProperties",
                            "breaksProperties", "concavity", "units", "steps",
                            "reverse"}
    /\ ret.kind \in {"none"} \cup LibOutcomes
    /\ libret \in {NoProps} \cup LibPoints
    /\ result.index \in 0..1
    /\ ncalls \in 0..MaxCalls

Init ==
    /\ op = "none"
    /\ given = <<>>
    /\ fn = "none"
    /\ arg = "none"
    /\ arg2 = "none"
    /\ size = NoSize
    /\ size2 = NoSize
    /\ opts = NoOpts
    /\ ret = NoReturn
    /\ libret = NoProps
    /\ result = NoProps
    /\ ncalls = 0

(***************************************************************************)
(* `turf.f(a, b, s, s2, o)` -- the call an exported function w makes: g    *)
(* are the distances its caller wrote, s and s2 what it hands over for     *)
(* them.                                                                   *)
(***************************************************************************)
Hand(w, f, a, b, g, s, s2, o) ==
    /\ ncalls < MaxCalls
    /\ op' = w
    /\ given' = g
    /\ fn' = f
    /\ arg' = a
    /\ arg2' = b
    /\ size' = s
    /\ size2' = s2
    /\ opts' = o
    /\ ncalls' = ncalls + 1

\* `return turf.f(...);` -- the value of the call, or the exception it
\* throws, is the wrapper's: there is no try/catch and nothing is changed.
PassOn(f) ==
    /\ \E out \in LibOutcomes : ret' = [kind |-> out, from |-> f]
    /\ libret' = NoProps
    /\ result' = NoProps

\* A call that hands over two positional inputs and no distance.
Delegate2(w, f, a, b, o) ==
    Hand(w, f, a, b, <<>>, NoSize, NoSize, o) /\ PassOn(f)

\* A call that hands over one positional input and no distance.
Delegate(w, f, a, o) == Delegate2(w, f, a, "none", o)

\* A call that hands over one distance.
DelegateKm(w, f, a, b, m, s, o) ==
    Hand(w, f, a, b, <<m>>, s, NoSize, o) /\ PassOn(f)

buffer ==
    \E features \in Features, radius \in Meters, steps \in Steps :
        DelegateKm("buffer", "buffer", features, "none", radius, ToKm(radius),
                   StepsOpts(steps))

gridHex ==
    \E bbox \in BBoxes, cellSide \in Meters, mask \in Masks :
        DelegateKm("gridHex", "hexGrid", bbox, "none", cellSide,
                   ToKm(cellSide), MaskOpts(mask))

gridTriHex ==
    \E bbox \in BBoxes, cellSide \in Meters, mask \in Masks :
        DelegateKm("gridTriHex", "hexGrid", bbox, "none", cellSide,
                   ToKm(cellSide), TriangleOpts(mask))

gridPoint ==
    \E bbox \in BBoxes, cellSide \in Meters, mask \in Masks :
        DelegateKm("gridPoint", "pointGrid", bbox, "none", cellSide,
                   ToKm(cellSide), MaskOpts(mask))

gridSquare ==
    \E bbox \in BBoxes, cellSide \in Meters, mask \in Masks :
        DelegateKm("gridSquare", "squareGrid", bbox, "none", cellSide,
                   ToKm(cellSide), MaskOpts(mask))

gridTriangle ==
    \E bbox \in BBoxes, cellSide \in Meters, mask \in Masks :
        DelegateKm("gridTriangle", "triangleGrid", bbox, "none", cellSide,
                   ToKm(cellSide), MaskOpts(mask))

interpolate ==
    \E points \in PointSets, cellSize \in Meters, gridType \in GridTypes,
       property \in Properties, weight \in Weights :
        DelegateKm("interpolate", "interpolate", points, "none", cellSize,
                   ToKm(cellSize), InterpolateOpts(gridType, property, weight))

polygonize ==
    \E geojson \in GeoJsons :
        Delegate("polygonize", "polygonize", geojson, NoOpts)

linesIso ==
    \E pointGrid \in PointGrids, breaks \in Breaks, options \in ContourOptions :
        Delegate2("linesIso", "isolines", pointGrid, breaks, options)

polygonIsobands ==
    \E pointGrid \in PointGrids, breaks \in Breaks, options \in ContourOptions :
        Delegate2("polygonIsobands", "isobands", pointGrid, breaks, options)

polygonsTin ==
    \E points \in PointSets, name \in TinNames :
        Delegate2("polygonsTin", "tin", points, name, NoOpts)

polygonsVoronoi ==
    \E points \in PointSets, bbox \in BBoxes :
        Delegate2("polygonsVoronoi", "voronoi", points, bbox, NoOpts)

polygonConcave ==
    \E points \in PointSets, maxEdge \in Meters :
        DelegateKm("polygonConcave", "concave", points, "none", maxEdge,
                   ToKm(maxEdge), MaxEdgeOpts)

polygonConvex ==
    \E features \in Features, options \in ConvexOptions :
        Delegate("polygonConvex", "convex", features, options)

lineArc ==
    \E center \in PointIds, radius \in Meters, bearings \in Bearings,
       steps \in Steps :
        DelegateKm("lineArc", "lineArc", center, bearings, radius,
                   ToKm(radius), StepsOpts(steps))

lineChunk ==
    \E lines \in Lines, length \in Meters, reverse \in BOOLEAN :
        DelegateKm("lineChunk", "lineChunk", lines, "none", length,
                   ToKm(length), ReverseOpts(reverse))

lineOffset ==
    \E line \in Lines, distance \in Meters :
        DelegateKm("lineOffset", "lineOffset", line, "none", distance,
                   ToKm(distance), NoOpts)

lineSliceAlong ==
    \E line \in Lines, startDist \in Meters, stopDist \in Meters :
        /\ Hand("lineSliceAlong", "lineSliceAlong", line, "none",
                <<startDist, stopDist>>, ToKm(startDist), ToKm(stopDist), NoOpts)
        /\ PassOn("lineSliceAlong")

pointAlong ==
    \E line \in Lines, distance \in Meters, options \in PointAlongOptions :
        DelegateKm("pointAlong", "along", line, "none", distance,
                   ToKm(distance), options)

pointDestination ==
    \E originPoint \in PointIds, distance \in Meters, angle \in Bearings :
        DelegateKm("pointDestination", "destination", originPoint, angle,
                   distance, ToKm(distance), NoOpts)

(***************************************************************************)
(* pointOnLineNearest: the feature turf.nearestPointOnLine returns is      *)
(* written to in place and returned; an exception passes through.          *)
(***************************************************************************)
pointOnLineNearest ==
    \E lines \in Lines, point \in PointIds :
        /\ Hand("pointOnLineNearest", "nearestPointOnLine", lines, point,
                <<>>, NoSize, NoSize, NoOpts)
        /\ \/ \E pt \in LibPoints :
                 /\ libret' = pt
                 /\ result' = DistToMeters(pt)
                 /\ ret' = [kind |-> "returned", from |-> "nearestPointOnLine"]
           \/ /\ libret' = NoProps
              /\ result' = NoProps
              /\ ret' = [kind |-> "threw", from |-> "nearestPointOnLine"]

Next ==
    \/ buffer
    \/ gridHex
    \/ gridTriHex
    \/ gridPoint
    \/ gridSquare
    \/ gridTriangle
    \/ interpolate
    \/ polygonize
    \/ linesIso
    \/ polygonIsobands
    \/ polygonsTin
    \/ polygonsVoronoi
    \/ polygonConcave
    \/ polygonConvex
    \/ lineArc
    \/ lineChunk
    \/ lineOffset
    \/ lineSliceAlong
    \/ pointAlong
    \/ pointDestination
    \/ pointOnLineNearest

Spec == Init /\ [][Next]_vars

(***************************************************************************)
(* Properties.                                                             *)
(***************************************************************************)

\* s is g/1000: the distance g, written in meters, expressed in kilometres.
HandedIs(g, s) == s.den > 0 /\ s.num * MetersPerKm = g * s.den

\* C22: every wrapper whose documentation gives a distance in meters hands
\* the library that distance divided by 1000, to be read in the library's
\* default unit, the kilometre, so that it is read as meters.
MeterNormalisation ==
    op \in MetersDocumented =>
        /\ Len(given) >= 1
        /\ HandedIs(given[1], size)
        /\ Len(given) = 2 => HandedIs(given[2], size2)
        /\ ReadUnit(opts) = DefaultUnits

\* C23: whatever options the caller passes, pointAlong has the library read
\* the distance as the number of meters the caller wrote: a kilometre
\* amount read in kilometres (a distance of 0 is the same in every unit).
PointAlongInMeters ==
    op = "pointAlong" =>
        /\ HandedIs(given[1], size)
        /\ given[1] = 0 \/ ReadUnit(opts) = "kilometers"

\* C30: of the feature the library returned, pointOnLineNearest changes the
\* property dist alone, to 1000 times its value; the coordinates, index and
\* location are returned as computed, in the library's default unit.
DistOnlyChanged ==
    (op = "pointOnLineNearest" /\ ret.kind = "returned") =>
        /\ result.coords = libret.coords
        /\ result.index = libret.index
        /\ result.location = libret.location
        /\ result.dist.den > 0
        /\ result.dist.num * libret.dist.den
               = MetersPerKm * libret.dist.num * result.dist.den
        /\ ReadUnit(opts) = DefaultUnits

\* C30 happens: a nearest point at a distance and a location other than 0
\* has been returned.
DistOnlyChangedWitness ==
    /\ op = "pointOnLineNearest"
    /\ ret.kind = "returned"
    /\ libret.dist.num > 0
    /\ libret.location.num > 0
    /\ result.dist # libret.dist

====
